---- MODULE Spec2Model ----
(***************************************************************************)
(* Model of cynetworkx/release.py: the resolver get_info(), its helper     *)
(* get_revision() and the writer write_versionfile(), together with the    *)
(* environment they read: the directory basedir (which may hold            *)
(* version.py), the directory basedir/../.git, the module search path,     *)
(* the clock (or SOURCE_DATE_EPOCH) and the module constants               *)
(* name/major/minor/dev.                                                   *)
(*                                                                         *)
(* Python values: a str is a TLA+ string, a tuple is a sequence, a         *)
(* datetime is the sequence <<year, month, day, hour, minute, second>>.    *)
(* None is the string "None"; no Python str of the model has this text.    *)
(* Each call runs in a fresh interpreter (release.py is executed once per  *)
(* setup.py run or import), so no module cache survives between calls.     *)
(***************************************************************************)
EXTENDS Integers, Sequences, FiniteSets, TLC

VARIABLES
    gitdir,     \* os.path.isdir(os.path.join(basedir, '..', '.git'))
    files,      \* the regular files of basedir: file name -> text
    sys_path,   \* TRUE iff `import version` would find basedir/version.py
    clock,      \* int(os.environ.get('SOURCE_DATE_EPOCH', time.time()))
    dev,        \* module constant dev
    major,      \* module constant major
    minor,      \* module constant minor
    last,       \* outcome of the call that has just returned
    seen,       \* the resolution made before the one in `last`
    written     \* what the latest writefile() put into version.py

vars == <<gitdir, files, sys_path, clock, dev, major, minor, last, seen, written>>
env == <<gitdir, sys_path, clock, dev, major, minor>>

-----------------------------------------------------------------------------
(* Bounds of the model *)

\* the clock takes the values 0 .. MaxTime (seconds since the epoch)
MaxTime == 2

\* the (major, minor) pairs the source is edited to between releases
Releases == {<<"3", "0">>, <<"3", "1">>}

-----------------------------------------------------------------------------
(* Python values *)

None == "None"

name == "cynetworkx"

\* the file name joined to basedir in write_versionfile
versionfile == "version.py"

Digit == <<"0", "1", "2", "3", "4", "5", "6", "7", "8", "9">>

\* "%02d"
Pad2(n) == Digit[((n \div 10) % 10) + 1] \o Digit[(n % 10) + 1]

\* "%04d"
Pad4(n) == Pad2(n \div 100) \o Pad2(n % 100)

\* "%2d": the day of month of asctime, padded with a space
SpacePad2(n) == IF n < 10 THEN " " \o Digit[n + 1] ELSE Pad2(n)

\* datetime.datetime.utcfromtimestamp(t), for t within January 1970
utcfromtimestamp(t) ==
    LET days == t \div 86400
        secs == t % 86400
    IN  <<1970, 1, 1 + days, secs \div 3600, (secs % 3600) \div 60, secs % 60>>

DayNames == <<"Mon", "Tue", "Wed", "Thu", "Fri", "Sat", "Sun">>

\* date_info.timetuple().tm_wday within January 1970 (1 Jan 1970: Thursday)
weekday(d) == (3 + (d[3] - 1)) % 7

\* time.asctime(date_info.timetuple())
asctime(d) ==
    DayNames[weekday(d) + 1] \o " Jan " \o SpacePad2(d[3]) \o " "
        \o Pad2(d[4]) \o ":" \o Pad2(d[5]) \o ":" \o Pad2(d[6])
        \o " " \o Pad4(d[1])

\* date_info.strftime("%Y%m%d%H%M%S")
strftime(d) ==
    Pad4(d[1]) \o Pad2(d[2]) \o Pad2(d[3]) \o Pad2(d[4]) \o Pad2(d[5]) \o Pad2(d[6])

-----------------------------------------------------------------------------
(* repr() as used by "text % subs", and its evaluation by the import *)

\* repr of a str or of None, as the pieces of the literal
ReprAtom(x) == IF x = None THEN <<"None">> ELSE <<"'", x, "'">>

EvalAtom(tok) == IF Len(tok) = 1 THEN None ELSE tok[2]

ReprBool(b) == IF b THEN <<"True">> ELSE <<"False">>

\* repr of version_info: (name, major, minor, revision)
ReprTuple(t) == [i \in DOMAIN t |-> ReprAtom(t[i])]

EvalTuple(tok) == [i \in DOMAIN tok |-> EvalAtom(tok[i])]

\* repr of vcs_info: (vcs, (revision, tag))
ReprVcs(v) == <<ReprAtom(v[1]), ReprTuple(v[2])>>

EvalVcs(tok) == <<EvalAtom(tok[1]), EvalTuple(tok[2])>>

\* datetime.__repr__ leaves out a zero second (the microsecond is always 0)
ReprDatetime(d) ==
    [callee |-> "datetime.datetime",
     args   |-> IF d[6] = 0 THEN SubSeq(d, 1, 5) ELSE d]

\* datetime.datetime(year, month, day, hour, minute, second=0)
EvalDatetime(tok) ==
    IF Len(tok.args) = 5 THEN tok.args \o <<0>> ELSE tok.args

\* text % subs: the assignments of the generated version.py
text(subs) ==
    [version      |-> ReprAtom(subs.version),
     date         |-> ReprAtom(subs.date),
     dev          |-> ReprBool(subs.dev),
     version_info |-> ReprTuple(subs.version_info),
     date_info    |-> ReprDatetime(subs.date_info),
     vcs_info     |-> ReprVcs(subs.vcs_info)]

\* os.path.isfile(versionfile)
isfile == versionfile \in DOMAIN files

\* `from version import ...`: ImportError unless version.py is found on the
\* module search path; otherwise the names the file assigns
import_version ==
    IF sys_path /\ isfile
    THEN LET src == files[versionfile]
         IN  [raised       |-> None,
              date         |-> EvalAtom(src.date),
              date_info    |-> EvalDatetime(src.date_info),
              version      |-> EvalAtom(src.version),
              version_info |-> EvalTuple(src.version_info),
              vcs_info     |-> EvalVcs(src.vcs_info)]
    ELSE [raised |-> "ImportError"]

-----------------------------------------------------------------------------
(* get_revision *)

\* variant: a get_revision that finds a revision in a git checkout
get_revision_with_head ==
    [revision |-> IF gitdir THEN "HEAD" ELSE None,
     vcs_info |-> <<IF gitdir THEN "git" ELSE None, <<None, None>>>>]

get_revision ==
    LET vcs      == IF gitdir THEN "git" ELSE None
        revision == None
        tag      == None
    IN  [revision |-> revision, vcs_info |-> <<vcs, <<revision, tag>>>>]

-----------------------------------------------------------------------------
(* get_info *)

\* variant: the dev suffix is appended whatever dev is
compose_version_always_dev(maj, min, d, date_info) ==
    maj \o "." \o min \o ".dev_" \o strftime(date_info)

\* variant: the dev suffix is never appended
compose_version_never_dev(maj, min, d, date_info) == maj \o "." \o min

\* ''.join([str(major), '.', str(minor)]), plus the suffix of a dev release
compose_version(maj, min, d, date_info) ==
    LET version == maj \o "." \o min
    IN  IF d THEN version \o ".dev_" \o strftime(date_info) ELSE version

\* variant: the test without its `dynamic and`
needs_compose_unless_failed(import_failed, dynamic, dynamic_failed) ==
    import_failed \/ ~dynamic_failed

\* import_failed or (dynamic and not dynamic_failed)
needs_compose(import_failed, dynamic, dynamic_failed) ==
    import_failed \/ (dynamic /\ ~dynamic_failed)

get_info(dynamic) ==
    LET date_info0 == utcfromtimestamp(clock)
        date0      == asctime(date_info0)
        rev        == IF dynamic
                      THEN get_revision
                      ELSE [revision |-> None, vcs_info |-> None]
        dynamic_failed == dynamic /\ rev.revision = None
        tried      == dynamic_failed \/ ~dynamic
        imp        == import_version
        import_failed == tried /\ imp.raised = "ImportError"
        imported   == tried /\ ~import_failed
        date       == IF imported THEN imp.date ELSE date0
        date_info  == IF imported THEN imp.date_info ELSE date_info0
        vcs_info   == IF imported THEN imp.vcs_info
                      ELSE IF import_failed THEN <<None, <<None, None>>>>
                      ELSE rev.vcs_info
        revision   == IF imported THEN vcs_info[2][1]
                      ELSE rev.revision
        composed   == needs_compose(import_failed, dynamic, dynamic_failed)
    IN  [date          |-> date,
         date_info     |-> date_info,
         version       |-> IF composed
                           THEN compose_version(major, minor, dev, date_info)
                           ELSE imp.version,
         version_info  |-> IF composed
                           THEN <<name, major, minor, revision>>
                           ELSE imp.version_info,
         vcs_info      |-> vcs_info,
         revision      |-> revision,
         import_failed |-> import_failed]

\* the tuple get_info returns
returned(info) ==
    <<info.date, info.date_info, info.version, info.version_info, info.vcs_info>>

-----------------------------------------------------------------------------
(* write_versionfile *)

\* writefile(): open(versionfile, 'w') raises when the file cannot be
\* opened for writing and then leaves the directory as it was
writefile(info, io_ok) ==
    IF io_ok
    THEN [raised |-> None, wrote |-> TRUE,
          files  |-> (versionfile :> text([dev          |-> dev,
                                           version      |-> info.version,
                                           version_info |-> info.version_info,
                                           date         |-> info.date,
                                           date_info    |-> info.date_info,
                                           vcs_info     |-> info.vcs_info]))
                     @@ files]
    ELSE [raised |-> "IOError", wrote |-> FALSE, files |-> files]

\* variant: the update branch is taken for every vcs kind
vcs_is_anything(vcs_info) == TRUE

\* vcs_info[0] == 'mercurial'
vcs_is_mercurial(vcs_info) == vcs_info[1] = "mercurial"

\* variant: the existing file is not imported; get_info's version is returned
keep_existing_unchecked(info) ==
    [raised |-> None, wrote |-> FALSE, files |-> files, version |-> info.version]

\* the branch of an existing version.py: `from version import version`
keep_existing(info) ==
    LET imp == import_version
    IN  IF imp.raised = None
        THEN [raised |-> None, wrote |-> FALSE, files |-> files,
              version |-> imp.version]
        ELSE [raised |-> imp.raised, wrote |-> FALSE, files |-> files,
              version |-> None]

write_versionfile(io_ok) ==
    LET info == get_info(TRUE)
        w    == writefile(info, io_ok)
        out  == IF vcs_is_mercurial(info.vcs_info)
                THEN w @@ [version |-> info.version]
                ELSE IF isfile
                     THEN keep_existing(info)
                     ELSE w @@ [version |-> info.version]
    IN  [raised   |-> out.raised,
         wrote    |-> out.wrote,
         files    |-> out.files,
         info     |-> info,
         version  |-> IF out.raised = None THEN out.version ELSE None]

-----------------------------------------------------------------------------
(* The state machine: calls of the two functions, and the environment *)

NoCall == [op |-> "none"]

\* the resolution in `last`, kept for comparison with the next one;
\* adjacent: nothing happened between the two resolutions
Retire(adjacent) ==
    IF last.op = "get_info"
    THEN [op       |-> "get_info",
          dynamic  |-> last.dynamic,
          result   |-> returned(last.info),
          revision |-> last.info.revision,
          import_failed |-> last.info.import_failed,
          major    |-> major,
          minor    |-> minor,
          dev      |-> dev,
          clock    |-> clock,
          adjacent |-> adjacent]
    ELSE IF seen.op = "none" THEN seen
    ELSE [seen EXCEPT !.adjacent = FALSE]

Init ==
    /\ gitdir \in BOOLEAN
    /\ files = <<>>
    /\ sys_path \in BOOLEAN
    /\ clock \in 0..MaxTime
    /\ dev = TRUE
    /\ major = "3"
    /\ minor = "0"
    /\ last = NoCall
    /\ seen = NoCall
    /\ written = NoCall

\* a change of the environment ends the call recorded in `last`
Moved ==
    /\ last' = NoCall
    /\ seen' = Retire(FALSE)
    /\ UNCHANGED <<files, written>>

\* the clock advances, or SOURCE_DATE_EPOCH is set to another value
SetClock ==
    /\ \E t \in 0..MaxTime : t # clock /\ clock' = t
    /\ Moved
    /\ UNCHANGED <<gitdir, sys_path, dev, major, minor>>

\* the tree is put under git (a checkout) or taken out of it (a tarball)
SetGitdir ==
    /\ gitdir' = ~gitdir
    /\ Moved
    /\ UNCHANGED <<sys_path, clock, dev, major, minor>>

\* basedir enters or leaves the module search path
SetSysPath ==
    /\ sys_path' = ~sys_path
    /\ Moved
    /\ UNCHANGED <<gitdir, clock, dev, major, minor>>

\* "Change to False before tagging a release; then change back."
SetDev ==
    /\ dev' = ~dev
    /\ Moved
    /\ UNCHANGED <<gitdir, sys_path, clock, major, minor>>

\* major and minor are edited for the next release
SetRelease ==
    /\ \E r \in Releases :
          /\ r # <<major, minor>>
          /\ major' = r[1]
          /\ minor' = r[2]
    /\ Moved
    /\ UNCHANGED <<gitdir, sys_path, clock, dev>>

\* a call get_info(dynamic)
GetInfo ==
    /\ \E dynamic \in BOOLEAN :
          last' = [op |-> "get_info", dynamic |-> dynamic,
                   info |-> get_info(dynamic), raised |-> None]
    /\ seen' = Retire(last.op = "get_info")
    /\ UNCHANGED <<files, written, env>>

\* a call write_versionfile(); io_ok: version.py can be opened for writing
WriteVersionfile ==
    /\ \E io_ok \in BOOLEAN :
          LET r == write_versionfile(io_ok)
          IN  /\ files' = r.files
              /\ last' = [op |-> "write_versionfile", raised |-> r.raised,
                          wrote |-> r.wrote, before |-> files,
                          info |-> r.info, version |-> r.version]
              /\ written' = IF r.wrote
                            THEN [op |-> "writefile", dev |-> dev,
                                  result |-> returned(r.info)]
                            ELSE written
    /\ seen' = Retire(FALSE)
    /\ UNCHANGED env

Next ==
    \/ SetClock
    \/ SetGitdir
    \/ SetSysPath
    \/ SetDev
    \/ SetRelease
    \/ GetInfo
    \/ WriteVersionfile

Spec == Init /\ [][Next]_vars

-----------------------------------------------------------------------------
(* Properties *)

\* the text writefile() produces from the metadata of a resolution
TextOf(info, d) ==
    text([dev |-> d, version |-> info.version, version_info |-> info.version_info,
          date |-> info.date, date_info |-> info.date_info,
          vcs_info |-> info.vcs_info])

\* YYYYmmddHHMMSS of a timestamp of 1 January 1970
Stamp(t) ==
    "19700101" \o Pad2(t \div 3600) \o Pad2((t \div 60) % 60) \o Pad2(t % 60)

\* C1: a call of write_versionfile() made with the marker directory absent
\* and version.py present leaves version.py with the content it had before
\* the call.
C1_NoOverwrite ==
    (last.op = "write_versionfile" /\ ~gitdir /\ versionfile \in DOMAIN last.before)
        => files = last.before

\* C1 witness: such a call has returned normally where a rewrite would have
\* changed the file (the file records another dev flag than the current one)
C1_Witness ==
    /\ last.op = "write_versionfile"
    /\ last.raised = None
    /\ ~gitdir
    /\ versionfile \in DOMAIN last.before
    /\ last.before[versionfile].dev # ReprBool(dev)

\* C2: whenever the marker directory is present, the vcs kind returned by
\* get_info(dynamic=True) is 'git'.
C2_VcsKindIsGit ==
    (last.op = "get_info" /\ last.dynamic /\ gitdir)
        => last.info.vcs_info[1] = "git"

\* C3: whenever the marker directory is present, a call of
\* write_versionfile() that returns normally has (re)written version.py,
\* and version.py then holds the metadata resolved by that call.
C3_RewritesUnderMarker ==
    (last.op = "write_versionfile" /\ gitdir /\ last.raised = None)
        => /\ last.wrote
           /\ isfile
           /\ files[versionfile] = TextOf(last.info, dev)

\* C4: with no marker directory and no version.py, get_info (dynamic or not)
\* returns version "<major>.<minor>" when dev is False and
\* "<major>.<minor>.dev_<YYYYmmddHHMMSS of the timestamp>" when dev is True,
\* version_info (name, major, minor, None) and vcs_info (None, (None, None)).
C4_Synthesized ==
    (last.op = "get_info" /\ ~gitdir /\ ~isfile)
        => /\ last.info.version =
                 IF dev THEN major \o "." \o minor \o ".dev_" \o Stamp(clock)
                        ELSE major \o "." \o minor
           /\ last.info.version_info = <<name, major, minor, None>>
           /\ last.info.vcs_info = <<None, <<None, None>>>>

\* C4 witness: a dev release resolved statically at a non-zero timestamp
C4_Witness ==
    /\ last.op = "get_info"
    /\ ~last.dynamic
    /\ ~gitdir
    /\ ~isfile
    /\ dev
    /\ clock > 0

C6_NoErrorButWrite ==
    /\ last.op = "get_info" => last.raised = None
    /\ last.op = "write_versionfile" => last.raised \in {None, "IOError"}

\* C7 as claimed: two resolutions that agree on major, minor, dev and
\* revision return the same version string.
C7_VersionFunction ==
    (/\ last.op = "get_info"
     /\ seen.op = "get_info"
     /\ seen.major = major
     /\ seen.minor = minor
     /\ seen.dev = dev
     /\ seen.revision = last.info.revision)
        => seen.result[3] = last.info.version

\* C7 amended: two resolutions in both of which the import of version.py
\* fails, and that agree on major, minor, dev and revision and, when dev is
\* True, on the timestamp, return the same version string, whatever the
\* marker state and the dynamic flag of each.
C7_SynthesizedVersionFunction ==
    (/\ last.op = "get_info"
     /\ seen.op = "get_info"
     /\ seen.import_failed
     /\ last.info.import_failed
     /\ seen.major = major
     /\ seen.minor = minor
     /\ seen.dev = dev
     /\ seen.revision = last.info.revision
     /\ (dev => seen.clock = clock))
        => seen.result[3] = last.info.version

\* C7 witness: two such resolutions of a non-dev release at different
\* timestamps, one dynamic under the marker and one static
C7_Witness ==
    /\ last.op = "get_info"
    /\ seen.op = "get_info"
    /\ seen.import_failed
    /\ last.info.import_failed
    /\ seen.major = major
    /\ seen.minor = minor
    /\ seen.dev = dev
    /\ ~dev
    /\ seen.clock # clock
    /\ seen.dynamic # last.dynamic
    /\ gitdir

C9_ReturnsStoredVersion ==
    (last.op = "write_versionfile" /\ last.raised = None)
        => /\ isfile
           /\ EvalAtom(files[versionfile].version) = last.version

\* C9 witness: the call kept an existing file whose version differs from the
\* one a fresh resolution would compose
C9_Witness ==
    /\ last.op = "write_versionfile"
    /\ last.raised = None
    /\ ~last.wrote
    /\ last.version # compose_version(major, minor, dev, utcfromtimestamp(clock))

\* C10: get_info(dynamic=True) and get_info(dynamic=False), called one after
\* the other in the same environment, return identical tuples.
C10_DynamicEqualsStatic ==
    (/\ last.op = "get_info"
     /\ seen.op = "get_info"
     /\ seen.adjacent
     /\ seen.dynamic # last.dynamic)
        => seen.result = returned(last.info)

\* C10 witness: the two calls were made under the marker with no importable
\* version.py, where the dynamic call has found vcs kind 'git'
C10_Witness ==
    /\ last.op = "get_info"
    /\ seen.op = "get_info"
    /\ seen.adjacent
    /\ seen.dynamic # last.dynamic
    /\ gitdir
    /\ last.info.import_failed

====
